---- MODULE Spec2Model ----
(***************************************************************************)
(* Grand's Stories API (been_stories): the chat handler of api/chat.js,    *)
(* its conversation state manager, the personality matrix, and the auth    *)
(* endpoint of api/auth.js, over a store with the three tables             *)
(* conversations, messages and memory_fragments.                           *)
(*                                                                         *)
(* Numbers: trait values are scaled by 10000 (0.8 is 8000), probabilities, *)
(* volatilities and Math.random() draws by 1000 (a draw r stands for       *)
(* r/1000, so draws range over 0..999), conversationalDepth by 100.        *)
(***************************************************************************)
EXTENDS Integers, Sequences, FiniteSets, TLC

\* ---------------------------------------------------------------- bounds
\* number of chat requests the environment sends one after the other
MaxTurns == 3
\* number of chat requests the environment sends when requests may overlap
MaxOverlappingTurns == 2
\* number of store calls that may fail (error, throw or hang) in one behaviour
MaxFailures == 1
\* number of rows the messages table holds in the unit specification
MaxRows == 22

\* ------------------------------------------------------ program constants
\* chat.js:52  message.length > 1000
MaxMessageLength == 1000
\* chat.js:171 loadRecentMessages(limit = 20)
RecentLimit == 20
\* chat.js:195 .limit(50)
MemoryLimit == 50
\* chat.js:447 emotionalTrajectory.length > 10
TrajectoryCap == 10
\* chat.js:206-249 seven initial memories
SeedCount == 7

\* ------------------------------------------------------------ small sets
Slots == {1, 2}
Other(t) == 3 - t

\* user ids and chat ids are strings, modelled as sequences of pieces
UserIds == {<<"u1">>}
Timestamps == {"t1"}
ChatIds == {<<"chat", "_", "t1">>, <<"c2">>}

\* chat.js:112  `${userId}_${chatId}`
ConversationId(userId, chatId) == userId \o <<"_">> \o chatId

\* auth.js:65  `${userId}_chat_${Date.now()}`
AuthConversationId(userId, ts) == userId \o <<"_", "chat", "_", ts>>

ConvIds ==
  {ConversationId(u, c) : u \in UserIds, c \in ChatIds}
    \cup {AuthConversationId(u, ts) : u \in UserIds, ts \in Timestamps}

\* outcomes of one awaited store call: it answers, it answers with an
\* error object, its promise rejects, or it never settles
Outcomes == {"ok", "error", "throw", "hang"}
OkOnly == {"ok"}

Min(a, b) == IF a < b THEN a ELSE b
Max(a, b) == IF a > b THEN a ELSE b

RECURSIVE Reverse(_)
Reverse(s) == IF s = <<>> THEN <<>> ELSE Reverse(Tail(s)) \o <<Head(s)>>

Take(s, n) == SubSeq(s, 1, Min(n, Len(s)))

RECURSIVE SumOver(_, _)
SumOver(f, S) ==
  IF S = {} THEN 0
  ELSE LET x == CHOOSE y \in S : TRUE IN f[x] + SumOver(f, S \ {x})

\* ------------------------------------------------------- request bodies
\* A message value is undefined, a number or a string; of a string the model
\* keeps its length and the lexicon keywords it contains.
Msg(type, value, length, keywords) ==
  [type |-> type, value |-> value, length |-> length, keywords |-> keywords]

MessageValues ==
  { Msg("undefined", 0, 0, {}),
    Msg("number", 42, 0, {}),
    Msg("string", 0, 0, {}),
    Msg("string", 0, 5, {}),
    Msg("string", 0, 1000, {"wife", "computer"}),
    Msg("string", 0, 1001, {}) }

NoMessage == Msg("undefined", 0, 0, {})

\* req.body is undefined (no body sent) or an object
Bodies ==
  {[hasBody |-> FALSE, message |-> NoMessage]}
    \cup {[hasBody |-> TRUE, message |-> m] : m \in MessageValues}

\* JavaScript truthiness of a message value (chat.js:47 !message)
Truthy(m) ==
  CASE m.type = "undefined" -> FALSE
    [] m.type = "number" -> m.value # 0
    [] OTHER -> m.length > 0

\* chat.js:44-57 and 92-103: 0 stands for "validation passed"
ValidateRequest(body) ==
  IF ~body.hasBody THEN 500
  ELSE IF ~Truthy(body.message) \/ body.message.type # "string" THEN 400
  ELSE IF body.message.length > MaxMessageLength THEN 400
  ELSE 0

\* ------------------------------------------ QuantumSemanticAnalyzer
\* chat.js:589-598
semanticNetwork ==
  [family |-> {"wife", "husband", "children", "son", "daughter", "family",
               "married", "kids", "grandkids", "martha"},
   technology |-> {"computer", "code", "program", "algorithm", "software",
                   "hardware", "tech", "digital", "binary", "punch card",
                   "fortran", "lisp"},
   war |-> {"war", "military", "army", "signal", "corps", "soldier", "battle",
            "wwii", "enigma"},
   philosophy |-> {"life", "meaning", "purpose", "exist", "think", "believe",
                   "truth", "wisdom"},
   memory |-> {"remember", "memory", "past", "old", "nostalgia", "recall",
               "forget"},
   time |-> {"time", "year", "decade", "century", "past", "future", "now",
             "then"}]

\* variant: a text with no category keyword gets no topic
extractTopics_empty(m) ==
  {c \in DOMAIN semanticNetwork : semanticNetwork[c] \cap m.keywords # {}}

\* chat.js:631-650: the categories one of whose keywords occurs in the message
extractTopics(m) ==
  LET topics == {c \in DOMAIN semanticNetwork :
                   semanticNetwork[c] \cap m.keywords # {}}
  IN IF topics = {} THEN {"general"} ELSE topics

\* variant: the density is computed from a string as well as from an array
calculateSemanticDensityThrows_never(arg) == FALSE

\* chat.js:1057-1068: the argument is whatever the caller passes; `tokens.filter`
\* exists on an array and not on a string, so a non-empty string raises a
\* TypeError. The result here is whether the call throws.
calculateSemanticDensityThrows(arg) ==
  IF arg.length = 0 THEN FALSE
  ELSE ~arg.isArray

\* variant: line 528 passes the token array, so the analysis completes
analyzeWithDepth_completes(m) == [threw |-> FALSE, primaryTopics |-> extractTopics(m)]

\* chat.js:514-530: line 528 passes the message string itself to
\* calculateSemanticDensity
analyzeWithDepth(m) ==
  IF calculateSemanticDensityThrows([isArray |-> FALSE, length |-> m.length])
    THEN [threw |-> TRUE, primaryTopics |-> {}]
    ELSE [threw |-> FALSE, primaryTopics |-> extractTopics(m)]

\* ---------------------------- QuantumSemanticAnalyzer, field by field
\* A text as the analyzer reads it: the lexicon entries that occur in the
\* lower-cased text (String.includes), the interrogative lead the trimmed text
\* starts with ("none" if it starts with none), the marks among ? and ! that
\* occur in it, and its word statistics.
Text(keywords, lead, marks, words, chars, unique, sentences) ==
  [type |-> "string", value |-> 0, length |-> chars + words, keywords |-> keywords,
   lead |-> lead, marks |-> marks, words |-> words, chars |-> chars,
   unique |-> unique, sentences |-> sentences]

\* "Hello"
Hello == Text({}, "none", {}, 1, 5, 1, 1)

\* "I love my wife Martha, tell me about family"
LoveMartha == Text({"love", "wife", "martha", "family"}, "none", {}, 9, 34, 9, 1)

\* "What is the meaning of life?"
MeaningOfLife == Text({"meaning", "life"}, "what", {"?"}, 6, 22, 6, 1)

\* "happy glad joy pleasure delight wonderful amazing love adore cherish
\* treasure fond!": twelve entries of the positive lexicon
ManyHits ==
  Text({"happy", "glad", "joy", "pleasure", "delight", "wonderful", "amazing",
        "love", "adore", "cherish", "treasure", "fond"}, "none", {"!"}, 12, 71, 12, 1)

\* "They were here and it was good, but now it is not": two markers of the
\* past and one of the present
WereWasNow == Text({"were", "was", "now"}, "none", {}, 12, 37, 11, 1)

\* lexicon entries the generated texts are made of
KeywordPool ==
  {"wife", "computer", "code", "love", "hate", "sad", "now", "help", "meaning",
   "thing", "was", "will", "always"}

\* the largest number of lexicon entries in a generated text
MaxKeywords == 2

AnalyzerTexts ==
  {Hello, LoveMartha, MeaningOfLife, ManyHits, WereWasNow}
    \cup {Text(k, lead, marks, Cardinality(k) + 2, 4 * Cardinality(k) + 7,
               Cardinality(k) + 1, 1) :
            k \in {x \in SUBSET KeywordPool : Cardinality(x) <= MaxKeywords},
            lead \in {"none", "tell me", "how"},
            marks \in {{}, {"?"}}}

\* chat.js:600-620, the words of all emotions of one polarity
emotionLexicon ==
  [positive |-> {"happy", "glad", "joy", "pleasure", "delight", "wonderful",
                 "amazing", "love", "adore", "cherish", "treasure", "affection",
                 "fond", "hope", "optimistic", "expect", "anticipate",
                 "look forward", "proud", "accomplished", "achieved", "success",
                 "triumph"},
   negative |-> {"sad", "unhappy", "depressed", "melancholy", "grief", "sorrow",
                 "angry", "mad", "furious", "rage", "annoyed", "irritated",
                 "fear", "afraid", "scared", "terrified", "anxious", "worried",
                 "disgust", "hate", "loathe", "repulsed", "revolted"}]

\* chat.js:622-629, in declaration order
temporalPatterns ==
  << <<"past", {"ago", "was", "were", "had", "did", "used to", "back then",
                "in the past", "years ago", "decades ago"}>>,
     <<"present", {"now", "currently", "today", "at present", "right now",
                   "these days"}>>,
     <<"future", {"will", "going to", "shall", "future", "tomorrow", "soon",
                  "next", "later"}>>,
     <<"continuous", {"always", "never", "forever", "eternal", "permanent",
                      "constant"}>> >>

\* chat.js:541, the alternatives of the regular expression
interrogativeLeads ==
  {"what", "who", "where", "when", "why", "how", "can", "could", "would", "will",
   "do", "does", "did", "is", "are", "was", "were", "tell me", "explain",
   "i wonder", "curious"}

\* chat.js:541
containsQuestion(m) == m.lead \in interrogativeLeads

\* variant: a polarity wins only with a lead of two words
analyzeSentiment_threshold(m) ==
  LET positiveScore == Cardinality(m.keywords \cap emotionLexicon.positive)
      negativeScore == Cardinality(m.keywords \cap emotionLexicon.negative)
  IN IF positiveScore > negativeScore + 1 THEN "positive"
     ELSE IF negativeScore > positiveScore + 1 THEN "negative"
     ELSE "neutral"

\* chat.js:652-674
analyzeSentiment(m) ==
  LET positiveScore == Cardinality(m.keywords \cap emotionLexicon.positive)
      negativeScore == Cardinality(m.keywords \cap emotionLexicon.negative)
  IN IF positiveScore > negativeScore THEN "positive"
     ELSE IF negativeScore > positiveScore THEN "negative"
     ELSE "neutral"

\* chat.js:676-693, in tenths: the division by 10 is the only normalisation
calculateSentimentScore(m) ==
  Cardinality(m.keywords \cap emotionLexicon.positive)
    - Cardinality(m.keywords \cap emotionLexicon.negative)

\* chat.js:695-706, scaled by 1000
calculateComplexity(m) ==
  IF m.words = 0 THEN 0
  ELSE Min(1000, (m.chars * 30) \div m.words + (m.unique * 400) \div m.words
                   + m.sentences * 60)

\* chat.js:708-718
detectUrgency(m) ==
  IF m.keywords \cap {"urgent", "emergency", "help", "now", "immediately", "quick",
                      "fast", "asap", "hurry"} # {} THEN "high"
  ELSE IF m.marks # {} THEN "medium"
  ELSE "low"

\* chat.js:720-740
detectAbstraction(m) ==
  LET abstractCount == Cardinality(m.keywords \cap
        {"idea", "concept", "theory", "philosophy", "meaning", "purpose",
         "existence", "truth"})
      concreteCount == Cardinality(m.keywords \cap
        {"touch", "see", "hear", "smell", "taste", "object", "thing", "person",
         "place"})
  IN IF abstractCount = 0 /\ concreteCount = 0 THEN "neutral"
     ELSE IF abstractCount > concreteCount * 2 THEN "high"
     ELSE IF concreteCount > abstractCount * 2 THEN "low"
     ELSE "medium"

\* chat.js:894-923: one reference per timeframe that has a pattern in the
\* text; all counts are 1, so the reduce keeps the last timeframe referenced
determineTemporalOrientation(m) ==
  LET references == SelectSeq(temporalPatterns, LAMBDA p : p[2] \cap m.keywords # {})
  IN IF references = <<>> THEN "present" ELSE references[Len(references)][1]

\* chat.js:763-805 with 825-834: the technical analogy is prefixed by one of
\* four phrases chosen by Math.random(); random is that draw
generateMeaningSuperpositions(m, random) ==
  <<"literal">> \o
  (IF m.keywords \cap {"code", "program", "algorithm", "function", "loop",
                       "recursive", "binary", "logic"} # {}
     THEN << <<"technical_analogy", (random * 4) \div 1000>> >> ELSE <<>>)

\* variant: the complexity is jittered by a random draw
baseAnalysis_jitter(m, random) ==
  [primaryTopics |-> extractTopics(m), sentiment |-> analyzeSentiment(m),
   sentimentScore |-> calculateSentimentScore(m),
   complexity |-> Min(1000, calculateComplexity(m) + random \div 100),
   urgency |-> detectUrgency(m), abstractionLevel |-> detectAbstraction(m),
   containsQuestion |-> containsQuestion(m)]

\* chat.js:532-552: the fields the claims read; random is the state of
\* Math.random(), which the method is free to draw from and does not
baseAnalysis(m, random) ==
  [primaryTopics |-> extractTopics(m), sentiment |-> analyzeSentiment(m),
   sentimentScore |-> calculateSentimentScore(m),
   complexity |-> calculateComplexity(m),
   urgency |-> detectUrgency(m), abstractionLevel |-> detectAbstraction(m),
   containsQuestion |-> containsQuestion(m)]

\* chat.js:514-527 up to the call of line 528: the parts of the analysis
AnalysisParts(m, random) ==
  [base |-> baseAnalysis(m, random),
   superposition |-> generateMeaningSuperpositions(m, random),
   temporalOrientation |-> determineTemporalOrientation(m)]

\* ------------------------------------------------- PersonalityMatrix
\* chat.js:2242-2253
defineTraits ==
  [curiosity |-> [min |-> 6000, max |-> 9000, volatility |-> 100],
   nostalgia |-> [min |-> 5000, max |-> 8000, volatility |-> 150],
   wisdom |-> [min |-> 4000, max |-> 7000, volatility |-> 50],
   playfulness |-> [min |-> 3000, max |-> 6000, volatility |-> 200],
   patience |-> [min |-> 7000, max |-> 9500, volatility |-> 20],
   creativity |-> [min |-> 5000, max |-> 8000, volatility |-> 100],
   skepticism |-> [min |-> 3000, max |-> 6000, volatility |-> 80],
   enthusiasm |-> [min |-> 4000, max |-> 7000, volatility |-> 120]]

\* chat.js:2255-2264
defineStates ==
  [engaged |-> [curiosity |-> 8000, enthusiasm |-> 7000],
   reflective |-> [nostalgia |-> 8000, wisdom |-> 7000],
   creative |-> [creativity |-> 8000, playfulness |-> 6000],
   patient |-> [patience |-> 9000, wisdom |-> 6000],
   nostalgic |-> [nostalgia |-> 9000, reflection |-> 7000],
   instructive |-> [wisdom |-> 8000, patience |-> 7000]]

\* chat.js:2266-2275, each table in its declaration order
defineTransitions ==
  [engaged |-> << <<"reflective", 300>>, <<"creative", 400>>, <<"patient", 300>> >>,
   reflective |-> << <<"engaged", 400>>, <<"nostalgic", 400>>, <<"instructive", 200>> >>,
   creative |-> << <<"engaged", 500>>, <<"reflective", 300>>, <<"patient", 200>> >>,
   patient |-> << <<"instructive", 500>>, <<"reflective", 300>>, <<"engaged", 200>> >>,
   nostalgic |-> << <<"reflective", 600>>, <<"instructive", 400>> >>,
   instructive |-> << <<"engaged", 500>>, <<"patient", 300>>, <<"creative", 200>> >>]

\* the keys of a personality vector that hold trait scores (chat.js:2278-2280)
TraitKeys(personalityVector) == DOMAIN personalityVector \ {"currentEmotion"}

\* chat.js:2277-2290
getCurrentState(personalityVector) ==
  LET keys == TraitKeys(personalityVector)
      total == SumOver(personalityVector, keys)
  IN IF total > 7500 * Cardinality(keys) THEN "engaged"
     ELSE IF personalityVector.nostalgia > 8000 THEN "nostalgic"
     ELSE IF personalityVector.wisdom > 7000 THEN "instructive"
     ELSE IF personalityVector.creativity > 7000 THEN "creative"
     ELSE IF personalityVector.patience > 8000 THEN "patient"
     ELSE "reflective"

RECURSIVE transitionFrom(_, _, _, _, _)
transitionFrom(table, i, cumulative, random, currentState) ==
  IF i > Len(table) THEN currentState
  ELSE IF random <= cumulative + table[i][2] THEN table[i][1]
  ELSE transitionFrom(table, i + 1, cumulative + table[i][2], random, currentState)

\* a transition that never leaves the current state
transition_stays(currentState, random) == currentState

\* chat.js:2292-2305, with the Math.random() draw as a parameter
transition(currentState, random) ==
  transitionFrom(defineTransitions[currentState], 1, 0, random, currentState)

\* chat.js:2307-2325
adjustTraitsForState(state, currentTraits) ==
  LET stateTraits == defineStates[state]
  IN [k \in DOMAIN currentTraits |->
        IF k \in DOMAIN stateTraits /\ k # "currentEmotion"
          THEN LET volatility == IF k \in DOMAIN defineTraits
                                   THEN defineTraits[k].volatility ELSE 100
                   blended == (currentTraits[k] * (1000 - volatility)
                                 + stateTraits[k] * volatility) \div 1000
               IN IF k \in DOMAIN defineTraits
                    THEN Max(defineTraits[k].min, Min(defineTraits[k].max, blended))
                    ELSE blended
          ELSE currentTraits[k]]

\* ------------------------------- AdvancedConversationStateManager
\* chat.js:388-395
emotions ==
  << "curious", "nostalgic", "contemplative", "amused", "pensive", "passionate",
     "reflective", "wistful", "enthusiastic", "skeptical", "approving",
     "surprised" >>

selectRandomEmotion(random) == emotions[(random * Len(emotions)) \div 1000 + 1]

\* chat.js:373-386 (auth.js:10-28 is the same for these fields); d holds the
\* seven Math.random() draws in call order. speechPattern, knowledgeBias and
\* emotionalVolatility are carried by the code and read by nothing modelled.
generatePersonalityVector(d) ==
  [curiosity |-> 8000 + 2 * d[1],
   nostalgia |-> 7000 + 3 * d[2],
   wisdom |-> 6000 + 4 * d[3],
   playfulness |-> 4000 + 3 * d[4],
   patience |-> 9000 + d[5],
   creativity |-> 7000 + 3 * d[6],
   currentEmotion |-> selectRandomEmotion(d[7])]

\* the sequences of draws the model tries for one generatePersonalityVector call
RandomSamples ==
  { <<0, 0, 0, 0, 0, 0, 0>>,
    <<999, 999, 999, 999, 999, 999, 999>> }

\* the draws the model tries for one Math.random() call
RandomDraws == {0, 999}

\* chat.js:115-129: the state the constructor builds
ConstructorState(personalityVector) ==
  [personalityVector |-> personalityVector,
   longTermMemory |-> <<>>,
   shortTermMemory |-> <<>>,
   emotionalTrajectory |-> <<>>,
   hasTrajectory |-> TRUE,
   conversationalDepth |-> 0,
   interactionCount |-> 0]

\* auth.js:71-77: the metadata of a conversation created by the auth endpoint
\* has no emotionalTrajectory
AuthMetadata(personalityVector) ==
  [personalityVector |-> personalityVector,
   longTermMemory |-> <<>>,
   shortTermMemory |-> <<>>,
   emotionalTrajectory |-> <<>>,
   hasTrajectory |-> FALSE,
   conversationalDepth |-> 0,
   interactionCount |-> 0]

\* variant: the oldest tag is dropped as soon as the list reaches the cap
updateEmotionalTrajectory_early(emotionalTrajectory, emotion) ==
  LET pushed == Append(emotionalTrajectory, emotion)
  IN IF Len(pushed) >= TrajectoryCap THEN Tail(pushed) ELSE pushed

\* chat.js:445-450
updateEmotionalTrajectory(emotionalTrajectory, emotion) ==
  LET pushed == Append(emotionalTrajectory, emotion)
  IN IF Len(pushed) > TrajectoryCap THEN Tail(pushed) ELSE pushed

\* chat.js:173-181: rows is the table in created_at order; order descending,
\* limit, then reverse()
RecentMessages(rows, limit) == Reverse(Take(Reverse(rows), limit))

\* chat.js:190-198
RelevantMemories(rows) == Take(Reverse(rows), MemoryLimit)

\* chat.js:417-431, scaled by 100
calculateDepth(state) ==
  LET withTopics == {i \in 1..Len(state.shortTermMemory) :
                       state.shortTermMemory[i].role = "user"}
      topicVariety == Cardinality(
        UNION {state.shortTermMemory[i].topics : i \in withTopics})
      emotionalRange ==
        IF state.hasTrajectory
          THEN Cardinality({state.emotionalTrajectory[i] :
                              i \in 1..Len(state.emotionalTrajectory)})
          ELSE 0
  IN Min(100, state.interactionCount * 10 + topicVariety * 5 + emotionalRange * 15)

\* chat.js:206-249: the i-th initial memory
SeedFragment(i) == [fragment_type |-> "seed", index |-> i]

\* chat.js:326-355: the fragments one turn extracts; entities is the number of
\* entities extractEntities (chat.js:457-502) finds in the response text
ExtractedFragments(analysis, entities) ==
  (IF analysis.primaryTopics # {}
     THEN << [fragment_type |-> "concept", index |-> 0] >> ELSE <<>>)
  \o << [fragment_type |-> "emotional_state", index |-> 0] >>
  \o [j \in 1..entities |-> [fragment_type |-> "fact", index |-> 0]]

\* ------------------------------------------- QuantumResponseGenerator
\* Numbers of a candidate are scaled by 100.
\* the longest candidate pool handed to the selector
MaxPool == 3

\* a JavaScript number that may be NaN
Num(v) == [nan |-> FALSE, v |-> v]
NaN == [nan |-> TRUE, v |-> 0]

\* a candidate as its producer builds it (chat.js:1387-1393, 1516-1522,
\* 1575-1581, 1594-1600): a text, of which the model keeps what the scoring
\* reads, a confidence and a source; no producer sets coherenceScore.
\* coherence is calculateResponseCoherence of the text (chat.js:1902-1924).
Candidate(source, confidence, topical, questionMark, similarRecent, nostalgic, sentiment, coherence) ==
  [source |-> source, confidence |-> confidence, topical |-> topical,
   questionMark |-> questionMark, similarRecent |-> similarRecent,
   nostalgic |-> nostalgic, sentiment |-> sentiment, coherence |-> coherence,
   hasCoherenceScore |-> FALSE, coherenceScore |-> 0]

Candidates ==
  { Candidate("template", 40, FALSE, FALSE, 0, FALSE, "neutral", 70),
    Candidate("memory", 64, TRUE, FALSE, 1, TRUE, "positive", 70),
    Candidate("grammar", 81, TRUE, TRUE, 0, FALSE, "negative", 50),
    Candidate("knowledge", 70, TRUE, FALSE, 0, TRUE, "neutral", 100) }

\* the candidate pools: every sequence of at most MaxPool candidates
RECURSIVE Pools(_)
Pools(n) ==
  IF n = 0 THEN {<<>>}
  ELSE Pools(n - 1) \cup
       {Append(p, c) : p \in {q \in Pools(n - 1) : Len(q) = n - 1}, c \in Candidates}

\* what the scoring reads of the analysis and of the conversation state
ScoringContexts ==
  [containsQuestion : BOOLEAN, sentiment : {"positive", "negative", "neutral"},
   nostalgia : {7000, 9997}]

\* chat.js:1677-1696
calculateRelevance(candidate, ctx) ==
  Min(100, 50 + (IF candidate.topical THEN 30 ELSE 0)
              + (IF ctx.containsQuestion /\ candidate.questionMark THEN 20 ELSE 0))

\* chat.js:1703-1719
calculateNoveltyForCandidate(candidate) ==
  Max(10, 70 - 20 * candidate.similarRecent)

\* chat.js:1731-1751: the vector has no technology and no philosophy entry, so
\* only the nostalgia arm can add to the match
calculatePersonalityMatch(candidate, ctx) ==
  Min(100, 50 + (IF ctx.nostalgia > 7000 /\ candidate.nostalgic THEN 20 ELSE 0))

\* chat.js:1768-1775
calculateEmotionalFit(candidate, ctx) ==
  IF candidate.sentiment = ctx.sentiment THEN 80
  ELSE IF candidate.sentiment = "neutral" THEN 50
  ELSE 30

\* chat.js:1657-1675, scaled by 10000: candidate.coherenceScore is read from
\* the candidate, and undefined * 0.15 is NaN, which makes the sum NaN
calculateCandidateScore(candidate, ctx) ==
  IF ~candidate.hasCoherenceScore THEN NaN
  ELSE Num(candidate.confidence * 30
           + calculateRelevance(candidate, ctx) * 25
           + calculateNoveltyForCandidate(candidate) * 15
           + candidate.coherenceScore * 15
           + calculatePersonalityMatch(candidate, ctx) * 10
           + calculateEmotionalFit(candidate, ctx) * 5)

\* the comparator (a, b) => b.score - a.score of chat.js:1651 and 1289 as
\* Array.prototype.sort reads it: a NaN result counts as 0
CompareScores(a, b) ==
  IF a.nan \/ b.nan THEN 0 ELSE b.v - a.v

\* Array.prototype.sort with that comparator: a stable sort, here by insertion;
\* score is the function from positions of s to scores
RECURSIVE InsertSorted(_, _, _)
InsertSorted(sorted, x, score) ==
  IF sorted = <<>> THEN <<x>>
  ELSE IF CompareScores(score[Head(sorted)], score[x]) <= 0
         THEN <<Head(sorted)>> \o InsertSorted(Tail(sorted), x, score)
         ELSE <<x>> \o sorted

RECURSIVE SortPositions(_, _)
SortPositions(n, score) ==
  IF n = 0 THEN <<>>
  ELSE InsertSorted(SortPositions(n - 1, score), n, score)

\* the fixed candidate of chat.js:1637-1641
FallbackCandidate ==
  [source |-> "fallback", confidence |-> 30, text |-> "Hmm, let me think about that for a moment."]

\* variant: an empty pool is reported to the caller as an error
collapseResponseWaveform_throws(candidates, ctx) ==
  IF candidates = <<>> THEN [threw |-> TRUE, selected |-> FallbackCandidate, index |-> 0]
  ELSE [threw |-> FALSE, selected |-> candidates[1], index |-> 1]

\* chat.js:1635-1655: index is the pool position of the candidate returned
collapseResponseWaveform(candidates, ctx) ==
  IF candidates = <<>>
    THEN [threw |-> FALSE, selected |-> FallbackCandidate, index |-> 0]
    ELSE LET score == [i \in 1..Len(candidates) |->
                         calculateCandidateScore(candidates[i], ctx)]
             order == SortPositions(Len(candidates), score)
         IN [threw |-> FALSE, selected |-> candidates[order[1]], index |-> order[1]]


\* ------------------------------------------------------ MemoryLattice
\* chat.js:1290 .slice(0, 10)
RankLimit == 10
\* chat.js:1232 baseMemories.slice(0, 3)
AssociativeBase == 3
\* number of rows of memory_fragments the lattice is tried on
MaxFragments == 12

\* The rows the lattice reads: weight scaled by 100, last_accessed as the age
\* in days, topic standing for the keywords of the content.
LatticeWeights == <<90, 80, 80, 70, 60, 60, 60, 40, 30, 95, 20, 10, 85>>
LatticeAccessed == <<0, 5, 0, 120, 0, 50, 0, 0, 0, 0, 200, 0, 5>>
LatticeAges == <<0, 0, 15, 30, 0, 45, 0, 15, 0, 0, 0, 15, 0>>

LatticeRow(id) ==
  [id |-> id, weight |-> LatticeWeights[id], accessed_count |-> LatticeAccessed[id],
   age |-> LatticeAges[id],
   fragment_type |-> IF id % 3 = 2 THEN "emotional_state" ELSE "fact",
   topic |-> id % 4]

\* the conversation_id of each row (chat.js:2507): the rows of the table belong
\* to two conversations; no query of the lattice reads this column
LatticeOwner(id) ==
  IF id % 2 = 1 THEN ConversationId(<<"u1">>, <<"c2">>)
  ELSE ConversationId(<<"u1">>, <<"chat", "_", "t1">>)

LatticeIds == 1..MaxFragments

\* chat.js:1294-1308, scaled by 1000; no row has a relevance_score, so the last
\* term is 0.5 * 0.1
calculateMemoryScore(memory) ==
  LET recencyScore == Max(0, 100 - (memory.age * 100) \div 30)
      accessScore == Min(100, memory.accessed_count)
  IN memory.weight * 4 + recencyScore * 3 + accessScore * 2 + 50

\* the answer of the store to a select: the rows whose id is in match, in
\* descending order of key (rows with equal keys in id order), at most limit
QueryRows(match, key, limit) ==
  LET ids == SortPositions(MaxFragments,
                           [i \in LatticeIds |-> IF i \in match THEN Num(key[i] + 1) ELSE Num(0)])
      kept == SelectSeq(ids, LAMBDA i : i \in match)
  IN [k \in 1..Min(limit, Len(kept)) |-> LatticeRow(kept[k])]

\* chat.js:1156-1161: rows tagged with one of the topics, by weight, limit 10
retrieveByTopics(match) ==
  QueryRows(match, [i \in LatticeIds |-> LatticeRow(i).weight], 10)

\* chat.js:1174-1180: emotional_state rows naming the emotion, by weight, limit 5
retrieveByEmotion(match) ==
  QueryRows({i \in match : LatticeRow(i).fragment_type = "emotional_state"},
            [i \in LatticeIds |-> LatticeRow(i).weight], 5)

\* chat.js:1191-1200: rows heavier than the depth, by accessed_count, limit 5
retrieveByDepth(depth) ==
  QueryRows({i \in LatticeIds : LatticeRow(i).weight > depth},
            [i \in LatticeIds |-> LatticeRow(i).accessed_count], 5)

\* chat.js:1211-1217: the rows accessed last, limit 5
retrieveRecent ==
  QueryRows(LatticeIds, [i \in LatticeIds |-> 100 - LatticeRow(i).age], 5)

\* chat.js:1243-1264: rows other than the memory that share a keyword, limit 3
findAssociations(memory) ==
  QueryRows({i \in LatticeIds : i # memory.id /\ LatticeRow(i).topic = memory.topic},
            [i \in LatticeIds |-> 0], 3)

\* the position at which an id first occurs in a list of rows
FirstOccurrence(memories, id) ==
  CHOOSE k \in 1..Len(memories) :
    /\ memories[k].id = id
    /\ \A j \in 1..(k - 1) : memories[j].id # id

\* variant: every pooled entry is ranked, duplicates included
rankMemories_duplicates(memories) ==
  LET score == [k \in 1..Len(memories) |-> Num(calculateMemoryScore(memories[k]))]
      order == SortPositions(Len(memories), score)
  IN [k \in 1..Min(RankLimit, Len(order)) |-> memories[order[k]]]

\* chat.js:1275-1292: new Map(...) keeps one entry per id at the position of its
\* first occurrence; then the stable sort by score and the first 10
rankMemories(memories) ==
  LET firsts == SelectSeq([k \in 1..Len(memories) |-> k],
                          LAMBDA k : k = FirstOccurrence(memories, memories[k].id))
      uniqueMemories == [k \in 1..Len(firsts) |-> memories[firsts[k]]]
      score == [k \in 1..Len(uniqueMemories) |->
                  Num(calculateMemoryScore(uniqueMemories[k]))]
      order == SortPositions(Len(uniqueMemories), score)
  IN [k \in 1..Min(RankLimit, Len(order)) |-> uniqueMemories[order[k]]]

\* outcomes of a store query of the lattice that settles
QueryOutcomes == {"ok", "error", "throw"}

\* variant: the catch of a strategy rethrows to retrieveRelevantMemories
CatchRetrieveError_rethrow(o) == [rows |-> <<>>, propagates |-> TRUE]

\* chat.js:1166-1169, 1185-1188, 1205-1208, 1222-1225, 1260-1263: an error
\* object is thrown into the strategy's own catch, as is a rejection; the
\* strategy returns []
CatchRetrieveError(o) == [rows |-> <<>>, propagates |-> FALSE]

\* one strategy: its rows when the store answers, its catch otherwise
Strategy(o, rows) ==
  IF o = "ok" THEN [rows |-> rows, propagates |-> FALSE] ELSE CatchRetrieveError(o)

\* chat.js:1228-1241: the associations of the first three pooled memories;
\* outs[k] is the outcome of the k-th query
RECURSIVE retrieveAssociative(_, _, _)
retrieveAssociative(baseMemories, outs, k) ==
  IF k > Min(AssociativeBase, Len(baseMemories))
    THEN [rows |-> <<>>, propagates |-> FALSE]
    ELSE LET related == Strategy(outs[k], findAssociations(baseMemories[k]))
             rest == retrieveAssociative(baseMemories, outs, k + 1)
         IN IF related.propagates THEN related
            ELSE [rows |-> related.rows \o rest.rows, propagates |-> rest.propagates]

\* chat.js:1115-1145: q holds the outcome of each query and what the rows match;
\* an exception that reaches the outer catch ends the pooling, and what was
\* pooled is ranked
retrieveRelevantMemories(q) ==
  LET topicMemories == Strategy(q.topicsOutcome, retrieveByTopics(q.topicsMatch))
      emotionalMemories == Strategy(q.emotionOutcome, retrieveByEmotion(q.emotionMatch))
      depthMemories == Strategy(q.depthOutcome, retrieveByDepth(q.depth))
      recentMemories == Strategy(q.recentOutcome, retrieveRecent)
      m1 == topicMemories.rows
      m2 == IF topicMemories.propagates THEN m1 ELSE m1 \o emotionalMemories.rows
      p2 == topicMemories.propagates \/ emotionalMemories.propagates
      m3 == IF p2 THEN m2 ELSE m2 \o depthMemories.rows
      p3 == p2 \/ depthMemories.propagates
      m4 == IF p3 THEN m3 ELSE m3 \o recentMemories.rows
      p4 == p3 \/ recentMemories.propagates
      associativeMemories == retrieveAssociative(m4, q.associativeOutcomes, 1)
      m5 == IF p4 THEN m4 ELSE m4 \o associativeMemories.rows
  IN [threw |-> FALSE, pool |-> m5, memories |-> rankMemories(m5)]

\* the queries the lattice is tried on
LatticeQueries ==
  [topicsOutcome : QueryOutcomes, topicsMatch : {{}, LatticeIds},
   emotionOutcome : QueryOutcomes, emotionMatch : {{}, LatticeIds},
   depthOutcome : QueryOutcomes, depth : {0, 50},
   recentOutcome : QueryOutcomes,
   associativeOutcomes : [1..AssociativeBase -> {"ok", "error"}]]

\* chat.js:2510 CHECK (weight >= 0 AND weight <= 1), weights scaled by 1000
WeightCheck(row) == row.weight >= 0 /\ row.weight <= 1000

\* chat.js:326-355: the rows extractAndStoreMemories builds from an analysis
\* and from the entities of the response, with their weights scaled by 1000
extractAndStoreMemories(analysis, entities) ==
  (IF analysis.primaryTopics # {}
     THEN << [fragment_type |-> "concept",
              weight |-> Min(800, IF analysis.complexity = 0 THEN 500
                                  ELSE analysis.complexity)] >>
     ELSE <<>>)
  \o << [fragment_type |-> "emotional_state",
         weight |-> IF analysis.sentimentScore = 0 THEN 500
                    ELSE IF analysis.sentimentScore < 0
                           THEN (0 - analysis.sentimentScore) * 100
                           ELSE analysis.sentimentScore * 100] >>
  \o [j \in 1..entities |-> [fragment_type |-> "fact", weight |-> 600]]

\* the conversation states in which the handler enters the generator: the
\* constructor's, the one the auth endpoint stored, and the constructor's after
\* n earlier personality updates
ManagerStates ==
  {ConstructorState(generatePersonalityVector(d)) : d \in RandomSamples}
    \cup {AuthMetadata(generatePersonalityVector(d)) : d \in RandomSamples}
    \cup {[ConstructorState(generatePersonalityVector(d)) EXCEPT
             !.emotionalTrajectory = [k \in 1..n |-> "reflective"]] :
            d \in RandomSamples, n \in 1..TrajectoryCap}

\* the Math.random() draws tried for PersonalityMatrix.transition
TransitionDraws == {0, 350, 650, 999}

\* Math.random() is in [0, 1): every draw of the scale
AllDraws == 0..999

\* the summed probabilities of a transition table
RECURSIVE TableMass(_)
TableMass(table) ==
  IF table = <<>> THEN 0 ELSE table[1][2] + TableMass(Tail(table))

\* chat.js:2340-2349: the personality update of generateQuantumBennResponse;
\* the push of line 2349 (chat.js:446) throws when the state has no
\* emotionalTrajectory, after lines 2347-2348 have run
PersonalityUpdate(state, random) ==
  LET currentPersonality == state.personalityVector
      currentState == getCurrentState(currentPersonality)
      nextState == transition(currentState, random)
      adjustedPersonality ==
        [adjustTraitsForState(nextState, currentPersonality)
           EXCEPT !.currentEmotion = nextState]
      adjusted == [state EXCEPT !.personalityVector = adjustedPersonality]
  IN IF ~state.hasTrajectory
       THEN [threw |-> TRUE, nextState |-> nextState, state |-> adjusted]
       ELSE [threw |-> FALSE, nextState |-> nextState,
             state |-> [adjusted EXCEPT !.emotionalTrajectory =
                          updateEmotionalTrajectory(@, nextState)]]

\* ----------------------------------------------------- response text
\* A response text as the finishing steps read it: the class of its first
\* character, the class of its last character that is not white space, and
\* whether white space follows that character.
TextShape(first, last, trailingSpace) ==
  [first |-> first, last |-> last, trailingSpace |-> trailingSpace]

\* the texts of the candidate producers: a template keeps its placeholder
\* {response}, which fillTemplate does not replace (chat.js:1931-2009,
\* 1445-1450) and so ends with "}"; a memory, grammar or knowledge text and the
\* fixed candidate of an empty pool end with "." (chat.js:1565, 2128-2196, 1631,
\* 1638); every one starts with a capital letter
CandidateTexts ==
  [template |-> TextShape("upper", "other", FALSE),
   memory |-> TextShape("upper", "punct", FALSE),
   grammar |-> TextShape("upper", "punct", FALSE),
   knowledge |-> TextShape("upper", "punct", FALSE),
   fallback |-> TextShape("upper", "punct", FALSE)]

\* " Those were different times." and the like: every addon, tag and
\* signature starts with a blank and ends with "."
Sentence == TextShape("other", "punct", FALSE)

\* a connector followed by the content of a stored fragment, which ends with a
\* letter or a digit (chat.js:209-243, 332, 340, 468)
MemoryReference == TextShape("other", "other", FALSE)

\* the seven texts of chat.js:2457-2465, which end with ".", "..." or "?"
FallbackTexts == {TextShape("upper", "punct", FALSE)}

\* the traits the gates read, scaled by 10000, and the depths, scaled by 100
GateTraits == [nostalgia : {7000, 7500}, wisdom : {6000, 6500}]
GateDepths == {50, 60}

\* text + suffix
Concat(text, suffix) ==
  [first |-> text.first, last |-> suffix.last, trailingSpace |-> suffix.trailingSpace]

\* variant: the text is left as it is
EnsurePunctuation_skips(text) == text

\* chat.js:1861-1864 and 2435-2438: a "." is appended unless the trimmed text
\* ends with ".", "!" or "?"
EnsurePunctuation(text) ==
  IF text.last = "punct" THEN text
  ELSE [text EXCEPT !.last = "punct", !.trailingSpace = FALSE]

\* chat.js:2440-2443
Capitalize(text) ==
  IF text.first = "lower" THEN [text EXCEPT !.first = "upper"] ELSE text

\* variant: the addons depend on the draws only
applyPersonalityTransformation_ungated(r, personality, d1, d2) ==
  LET first == IF d1 < 400
                 THEN [text |-> Concat(r.text, Sentence),
                       applied |-> r.applied \cup {"nostalgicAddon"}]
                 ELSE r
  IN IF d2 < 300
       THEN [text |-> Concat(first.text, Sentence),
             applied |-> first.applied \cup {"wisdomAddon"}]
       ELSE first

\* chat.js:1782-1812; d1 and d2 are the draws of lines 1794 and 1806
applyPersonalityTransformation(r, personality, d1, d2) ==
  LET first == IF personality.nostalgia > 7000 /\ d1 < 400
                 THEN [text |-> Concat(r.text, Sentence),
                       applied |-> r.applied \cup {"nostalgicAddon"}]
                 ELSE r
  IN IF personality.wisdom > 6000 /\ d2 < 300
       THEN [text |-> Concat(first.text, Sentence),
             applied |-> first.applied \cup {"wisdomAddon"}]
       ELSE first

\* chat.js:1819-1842; d is the draw of line 1821, recent whether retrieveRecent
\* returned a row (a failing read returns none)
integrateMemories(r, d, recent) ==
  IF d < 300 /\ recent
    THEN [text |-> Concat(r.text, MemoryReference),
          applied |-> r.applied \cup {"memory"}]
    ELSE r

\* chat.js:1844-1867; d is the draw of line 1857
applyStylisticFinishing(r, d) ==
  LET signed == IF d < 300
                  THEN [text |-> Concat(r.text, Sentence),
                        applied |-> r.applied \cup {"signature"}]
                  ELSE r
  IN [signed EXCEPT !.text = EnsurePunctuation(@)]

\* chat.js:2379-2397; d is the draw of line 2382: the phrase starts with a
\* capital letter and the response text follows it
addMetaCognitiveLayer(r, depth, d) ==
  IF depth > 50 /\ d < 200
    THEN [text |-> [r.text EXCEPT !.first = "upper"],
          applied |-> r.applied \cup {"preface"},
          prefaces |-> r.prefaces + 1]
    ELSE [text |-> r.text, applied |-> r.applied, prefaces |-> r.prefaces]

\* chat.js:2411-2446; d1 and d2 are the draws of lines 2415 and 2425
polishResponse(r, personality, d1, d2) ==
  LET first == IF personality.nostalgia > 7000 /\ d1 < 300
                 THEN [r EXCEPT !.text = Concat(@, Sentence),
                                !.applied = @ \cup {"nostalgicTag"}]
                 ELSE r
      second == IF personality.wisdom > 6000 /\ d2 < 250
                  THEN [first EXCEPT !.text = Concat(@, Sentence),
                                     !.applied = @ \cup {"wisdomTag"}]
                  ELSE first
  IN [second EXCEPT !.text = Capitalize(EnsurePunctuation(@))]

\* chat.js:1331-1341 and 2354-2357: the way of the selected candidate's text
\* to the response text, d being the seven draws in the order of the calls
GenerateText(source, personality, depth, recent, d) ==
  LET selected == [text |-> CandidateTexts[source], applied |-> {}]
      personalized == applyPersonalityTransformation(selected, personality, d[1], d[2])
      enhanced == integrateMemories(personalized, d[3], recent)
      final == applyStylisticFinishing(enhanced, d[4])
      meta == addMetaCognitiveLayer(
                [text |-> final.text, applied |-> final.applied, prefaces |-> 0],
                depth, d[5])
  IN polishResponse(meta, personality, d[6], d[7])

\* chat.js:2456-2479
generateFallbackResponse(text) ==
  [text |-> text, applied |-> {}, prefaces |-> 0]

\* ------------------------------------------------------------- state
VARIABLES
  conversations,     \* table conversations: conversation id -> row
  messages,          \* table messages: conversation id -> rows in created_at order
  memory_fragments,  \* table memory_fragments: conversation id -> rows in insertion order
  slot,              \* the chat requests in flight, one per slot
  started,           \* number of chat requests sent so far
  failures,          \* number of store calls that failed so far
  completed,         \* conversation id -> number of chat turns answered with 200
  call               \* the last direct call of an exported component: operation, arguments, result

vars == <<conversations, messages, memory_fragments, slot, started, failures, completed, call>>

\* no exported component has been called directly
NoCall == [op |-> "none"]

NoRow ==
  [exists |-> FALSE, user_id |-> <<>>, created_by |-> "none",
   metadata |-> ConstructorState(generatePersonalityVector(<<0, 0, 0, 0, 0, 0, 0>>))]

IdleSlot ==
  [pc |-> "idle", body |-> [hasBody |-> FALSE, message |-> NoMessage],
   userId |-> <<>>, conversationId |-> <<>>,
   state |-> NoRow.metadata, constructed |-> NoRow.metadata.personalityVector,
   i |-> 0, status |-> 0, origin |-> "none", entities |-> 0,
   wrote |-> FALSE, loadFailed |-> FALSE, raced |-> FALSE]

Init ==
  /\ conversations = [c \in ConvIds |-> NoRow]
  /\ messages = [c \in ConvIds |-> <<>>]
  /\ memory_fragments = [c \in ConvIds |-> <<>>]
  /\ slot = [t \in Slots |-> IdleSlot]
  /\ started = 0
  /\ failures = 0
  /\ completed = [c \in ConvIds |-> 0]
  /\ call = NoCall

Active(t) == slot[t].pc \notin {"idle", "done"}

\* a store call may fail only while the failure budget lasts
Allowed(o) == o = "ok" \/ failures < MaxFailures
Charge(o) == failures' = failures + (IF o = "ok" THEN 0 ELSE 1)

\* the foreign keys and the unique key of chat.js:2485-2516: an insert that the
\* store answers is rejected with an error object when the key is violated
InsertOutcome(o, keyOk) == IF o = "ok" /\ ~keyOk THEN "error" ELSE o

\* variant: the catch of loadOrInitialize rethrows, the handler answers 500
CatchLoadError_rethrow(s) == [s EXCEPT !.pc = "done", !.status = 500, !.loadFailed = TRUE]

\* chat.js:165-168: the catch of loadOrInitialize logs and continues
CatchLoadError(s) == [s EXCEPT !.pc = "generate", !.loadFailed = TRUE]

\* chat.js:318-321 and 72-90: the catch of storeInteraction logs and the
\* handler answers 200
Respond(s) == [s EXCEPT !.pc = "done", !.status = 200]

Hang(s) == [s EXCEPT !.pc = "hung"]

\* ------------------------------------------------------------ actions
\* chat.js:21-60: a POST arrives; validation, then the constructor
Request(t, sequential) ==
  /\ slot[t].pc = "idle"
  /\ started < (IF sequential THEN MaxTurns ELSE MaxOverlappingTurns)
  /\ sequential => slot[Other(t)].pc = "idle"
  /\ started' = started + 1
  /\ \E body \in Bodies :
       LET v == ValidateRequest(body)
       IN IF v # 0
            THEN slot' = [slot EXCEPT ![t] =
                            [IdleSlot EXCEPT !.pc = "done", !.body = body, !.status = v]]
            ELSE \E u \in UserIds, c \in ChatIds, d \in RandomSamples :
                   LET id == ConversationId(u, c)
                       pv == generatePersonalityVector(d)
                       race == Active(Other(t)) /\ slot[Other(t)].conversationId = id
                   IN slot' = [slot EXCEPT
                        ![t] = [IdleSlot EXCEPT !.pc = "loadConv", !.body = body,
                                  !.userId = u, !.conversationId = id,
                                  !.state = ConstructorState(pv), !.constructed = pv,
                                  !.raced = race],
                        ![Other(t)] = [@ EXCEPT !.raced = @ \/ race]]
  /\ UNCHANGED <<conversations, messages, memory_fragments, failures, completed, call>>

\* chat.js:135-164: select the conversation row
LoadConversation(t, Outs) ==
  /\ slot[t].pc = "loadConv"
  /\ \E o \in Outs :
       /\ Allowed(o)
       /\ Charge(o)
       /\ LET s == slot[t]
              row == conversations[s.conversationId]
          IN slot' = [slot EXCEPT ![t] =
               CASE o = "hang" -> Hang(s)
                 [] o = "throw" -> CatchLoadError(s)
                 [] o = "ok" /\ row.exists ->
                      [s EXCEPT !.pc = "loadMsgs", !.state = row.metadata]
                 [] OTHER -> [s EXCEPT !.pc = "createConv"]]
  /\ UNCHANGED <<conversations, messages, memory_fragments, started, completed, call>>

\* chat.js:143-154: insert the conversation row with the constructor's state
CreateConversation(t, Outs) ==
  /\ slot[t].pc = "createConv"
  /\ \E o \in Outs :
       /\ Allowed(o)
       /\ Charge(o)
       /\ LET s == [slot[t] EXCEPT !.wrote = TRUE]
              e == InsertOutcome(o, ~conversations[s.conversationId].exists)
          IN /\ slot' = [slot EXCEPT ![t] =
                   CASE e = "hang" -> Hang(s)
                     [] e = "ok" -> [s EXCEPT !.pc = "seed", !.i = 1]
                     [] OTHER -> CatchLoadError(s)]
             /\ conversations' =
                  IF e = "ok"
                    THEN [conversations EXCEPT ![s.conversationId] =
                            [exists |-> TRUE, user_id |-> s.userId,
                             created_by |-> "chat", metadata |-> s.state]]
                    ELSE conversations
  /\ UNCHANGED <<messages, memory_fragments, started, completed, call>>

\* variant: the insert replaces the fragments the conversation already has
InsertFragment_replaces(rows, fragment) == <<fragment>>

\* chat.js:253-259 and 359-365: .from('memory_fragments').insert(...) adds a row
InsertFragment(rows, fragment) == Append(rows, fragment)

\* chat.js:251-262: insert the i-th initial memory; a failed insert is skipped
InsertInitialMemory(t, Outs) ==
  /\ slot[t].pc = "seed"
  /\ \E o \in Outs :
       /\ Allowed(o)
       /\ Charge(o)
       /\ LET s == slot[t]
              e == InsertOutcome(o, conversations[s.conversationId].exists)
          IN /\ slot' = [slot EXCEPT ![t] =
                   IF e = "hang" THEN Hang(s)
                   ELSE IF s.i = SeedCount THEN [s EXCEPT !.pc = "generate", !.i = 0]
                   ELSE [s EXCEPT !.i = s.i + 1]]
             /\ memory_fragments' =
                  IF e = "ok"
                    THEN [memory_fragments EXCEPT ![s.conversationId] =
                            InsertFragment(@, SeedFragment(s.i))]
                    ELSE memory_fragments
  /\ UNCHANGED <<conversations, messages, started, completed, call>>

\* chat.js:171-186
LoadRecentMessages(t, Outs) ==
  /\ slot[t].pc = "loadMsgs"
  /\ \E o \in Outs :
       /\ Allowed(o)
       /\ Charge(o)
       /\ LET s == slot[t]
          IN slot' = [slot EXCEPT ![t] =
               CASE o = "hang" -> Hang(s)
                 [] o = "ok" ->
                      [s EXCEPT !.pc = "loadMems",
                         !.state.shortTermMemory =
                            RecentMessages(messages[s.conversationId], RecentLimit)]
                 [] OTHER -> [s EXCEPT !.pc = "loadMems"]]
  /\ UNCHANGED <<conversations, messages, memory_fragments, started, completed, call>>

\* chat.js:188-203
LoadRelevantMemories(t, Outs) ==
  /\ slot[t].pc = "loadMems"
  /\ \E o \in Outs :
       /\ Allowed(o)
       /\ Charge(o)
       /\ LET s == slot[t]
          IN slot' = [slot EXCEPT ![t] =
               CASE o = "hang" -> Hang(s)
                 [] o = "ok" ->
                      [s EXCEPT !.pc = "generate",
                         !.state.longTermMemory =
                            RelevantMemories(memory_fragments[s.conversationId])]
                 [] OTHER -> [s EXCEPT !.pc = "generate"]]
  /\ UNCHANGED <<conversations, messages, memory_fragments, started, completed, call>>

\* chat.js:2330-2377 generateQuantumBennResponse. At "generate" the analysis and
\* the personality update run (no await); at "retrieve" the generator's store
\* reads are awaited (chat.js:1115-1145, 1819-1842: they only select, and a
\* failing read yields an empty result).
GenerateStep(t, Outs) ==
  /\ slot[t].pc \in {"generate", "retrieve"}
  /\ \E o \in Outs, random \in RandomDraws :
       /\ Allowed(o)
       /\ slot[t].pc = "generate" => o = "ok"
       /\ Charge(o)
       /\ LET s == slot[t]
              analysis == analyzeWithDepth(s.body.message)
              currentPersonality == s.state.personalityVector
              currentState == getCurrentState(currentPersonality)
              nextState == transition(currentState, random)
              adjustedPersonality ==
                [adjustTraitsForState(nextState, currentPersonality)
                   EXCEPT !.currentEmotion = nextState]
              fallback == [s EXCEPT !.pc = "store", !.origin = "fallback"]
          IN slot' = [slot EXCEPT ![t] =
               CASE s.pc = "generate" /\ analysis.threw -> fallback
                 [] s.pc = "generate" /\ ~s.state.hasTrajectory ->
                      \* chat.js:2349 push on an undefined emotionalTrajectory throws
                      [fallback EXCEPT !.state.personalityVector = adjustedPersonality]
                 [] s.pc = "generate" ->
                      [s EXCEPT !.pc = "retrieve",
                         !.state.personalityVector = adjustedPersonality,
                         !.state.emotionalTrajectory =
                            updateEmotionalTrajectory(@, nextState)]
                 [] o = "hang" -> Hang(s)
                 [] OTHER -> [s EXCEPT !.pc = "store", !.origin = "generated"]]
  /\ UNCHANGED <<conversations, messages, memory_fragments, started, completed, call>>

\* chat.js:265-322 storeInteraction and 324-371 extractAndStoreMemories, followed
\* by the handler's answer (chat.js:72-90). "store" is the entry (the analysis of
\* line 268, no await); every other position is one awaited store call.
StoreStep(t, Outs) ==
  /\ slot[t].pc \in {"store", "insertUser", "insertBenn", "update", "extract"}
  /\ \E o \in Outs, n \in {0, 1} :
       /\ Allowed(o)
       /\ slot[t].pc = "store" => o = "ok"
       /\ slot[t].pc # "update" => n = 0
       /\ Charge(o)
       /\ LET s == slot[t]
              c == s.conversationId
              analysis == analyzeWithDepth(s.body.message)
              w == [s EXCEPT !.wrote = TRUE]
              e == InsertOutcome(o, conversations[c].exists)
              counted == [w.state EXCEPT !.interactionCount = @ + 1]
              fragments == ExtractedFragments(analysis, s.entities)
              next ==
                CASE s.pc = "store" ->
                       IF analysis.threw THEN Respond(s)
                       ELSE [s EXCEPT !.pc = "insertUser"]
                  [] o = "hang" -> Hang(w)
                  [] s.pc = "insertUser" ->
                       IF e = "ok" THEN [w EXCEPT !.pc = "insertBenn"] ELSE Respond(w)
                  [] s.pc = "insertBenn" ->
                       IF e = "ok"
                         THEN [w EXCEPT !.pc = "update",
                                 !.state = [counted EXCEPT
                                   !.conversationalDepth = calculateDepth(counted)]]
                         ELSE Respond(w)
                  [] s.pc = "update" ->
                       IF o = "ok" THEN [w EXCEPT !.pc = "extract", !.i = 1, !.entities = n]
                       ELSE Respond(w)
                  [] OTHER ->
                       IF o = "throw" \/ s.i = Len(fragments) THEN Respond(w)
                       ELSE [w EXCEPT !.i = s.i + 1]
          IN /\ slot' = [slot EXCEPT ![t] = next]
             /\ completed' =
                  IF next.pc = "done" THEN [completed EXCEPT ![c] = @ + 1]
                  ELSE completed
             /\ messages' =
                  IF s.pc = "insertUser" /\ e = "ok"
                    THEN [messages EXCEPT ![c] = Append(@,
                            [role |-> "user", topics |-> analysis.primaryTopics,
                             created_at |-> Len(@) + 1])]
                  ELSE IF s.pc = "insertBenn" /\ e = "ok"
                    THEN [messages EXCEPT ![c] = Append(@,
                            [role |-> "benn", topics |-> {}, created_at |-> Len(@) + 1])]
                  ELSE messages
             /\ conversations' =
                  IF s.pc = "update" /\ o = "ok" /\ conversations[c].exists
                    THEN [conversations EXCEPT ![c].metadata = s.state]
                    ELSE conversations
             /\ memory_fragments' =
                  IF s.pc = "extract" /\ e = "ok"
                    THEN [memory_fragments EXCEPT ![c] = InsertFragment(@, fragments[s.i])]
                    ELSE memory_fragments
  /\ UNCHANGED <<started, call>>

\* the answer has been sent; the slot serves the next request
Release(t) ==
  /\ slot[t].pc = "done"
  /\ slot' = [slot EXCEPT ![t] = IdleSlot]
  /\ UNCHANGED <<conversations, messages, memory_fragments, started, failures, completed, call>>

\* auth.js:54-86 handleAuth from the user id on: look for a conversation of the
\* user, create the first one if none is reported
Auth(sequential, Outs) ==
  \E u \in UserIds, ts \in Timestamps, d \in RandomSamples, o1 \in Outs, o2 \in Outs :
    LET existingUser ==
          o1 = "ok" /\ \E c \in ConvIds :
                         conversations[c].exists /\ conversations[c].user_id = u
        id == AuthConversationId(u, ts)
        inserts == o1 \in {"ok", "error"} /\ ~existingUser
        e == InsertOutcome(o2, ~conversations[id].exists)
        cost == (IF o1 = "ok" THEN 0 ELSE 1) + (IF o2 = "ok" THEN 0 ELSE 1)
    IN /\ sequential => \A t \in Slots : slot[t].pc = "idle"
       /\ ~inserts => o2 = "ok"
       /\ failures + cost <= MaxFailures
       /\ failures' = failures + cost
       /\ conversations' =
            IF inserts /\ e = "ok"
              THEN [conversations EXCEPT ![id] =
                      [exists |-> TRUE, user_id |-> u, created_by |-> "auth",
                       metadata |-> AuthMetadata(generatePersonalityVector(d))]]
              ELSE conversations
       /\ UNCHANGED <<messages, memory_fragments, slot, started, completed, call>>

\* the users that ask for a deletion: the owner and somebody else
DeleteUsers == UserIds \cup {<<"u2">>}

\* messages.js:44-72 handleMessages with action 'delete': delete the messages
\* of the conversation id, then the conversation row of that id and user; the
\* foreign keys of chat.js:2502 and 2515 cascade the row's deletion to its
\* messages and memory fragments
DeleteConversation(sequential, Outs) ==
  \E u \in DeleteUsers, id \in ConvIds, o1 \in Outs, o2 \in Outs :
    LET cost == (IF o1 = "ok" THEN 0 ELSE 1) + (IF o2 = "ok" THEN 0 ELSE 1)
        rowDeleted == /\ o1 = "ok" /\ o2 = "ok"
                      /\ conversations[id].exists /\ conversations[id].user_id = u
    IN /\ sequential => \A t \in Slots : slot[t].pc = "idle"
       /\ o1 # "ok" => o2 = "ok"
       /\ failures + cost <= MaxFailures
       /\ failures' = failures + cost
       /\ messages' = IF o1 = "ok" THEN [messages EXCEPT ![id] = <<>>] ELSE messages
       /\ conversations' =
            IF rowDeleted THEN [conversations EXCEPT ![id] = NoRow] ELSE conversations
       /\ memory_fragments' =
            IF rowDeleted THEN [memory_fragments EXCEPT ![id] = <<>>] ELSE memory_fragments
       /\ UNCHANGED <<slot, started, completed, call>>

\* ------------------------------------------------------ specifications
Step(t, sequential, Outs) ==
  \/ Request(t, sequential)
  \/ LoadConversation(t, Outs)
  \/ CreateConversation(t, Outs)
  \/ InsertInitialMemory(t, Outs)
  \/ LoadRecentMessages(t, Outs)
  \/ LoadRelevantMemories(t, Outs)
  \/ GenerateStep(t, Outs)
  \/ StoreStep(t, Outs)
  \/ Release(t)

\* one request at a time, store calls may fail
Next == (\E t \in Slots : Step(t, TRUE, Outcomes)) \/ Auth(TRUE, Outcomes)
Spec == Init /\ [][Next]_vars

\* requests may overlap, every store call succeeds
NextOk == (\E t \in Slots : Step(t, FALSE, OkOnly)) \/ Auth(FALSE, OkOnly)
OkSpec == Init /\ [][NextOk]_vars

\* one request at a time, every store call succeeds
NextSeqOk == (\E t \in Slots : Step(t, TRUE, OkOnly)) \/ Auth(TRUE, OkOnly)
SeqOkSpec == Init /\ [][NextSeqOk]_vars

\* one request at a time, store calls may fail, and a continuation whose
\* awaited call has settled is eventually run by the event loop
TurnStep(t) ==
  \/ LoadConversation(t, Outcomes)
  \/ CreateConversation(t, Outcomes)
  \/ InsertInitialMemory(t, Outcomes)
  \/ LoadRecentMessages(t, Outcomes)
  \/ LoadRelevantMemories(t, Outcomes)
  \/ GenerateStep(t, Outcomes)
  \/ StoreStep(t, Outcomes)
FairSpec == Spec /\ \A t \in Slots : WF_vars(TurnStep(t))

\* one request at a time, store calls may fail, and conversations are deleted
NextLifecycle == Next \/ DeleteConversation(TRUE, Outcomes)
LifecycleSpec == Init /\ [][NextLifecycle]_vars

\* ---------------------------------------------- unit specification
\* The exported AdvancedConversationStateManager (chat.js:2600) driven method by
\* method: slot 1 holds one manager whose methods are called in any order,
\* against a messages table of any size up to MaxRows.
MaxPushes == 12
UnitTags == {"engaged", "reflective"}
UnitConv == ConversationId(<<"u1">>, <<"c2">>)

UnitRows(n) ==
  [k \in 1..n |-> [role |-> IF k % 2 = 1 THEN "user" ELSE "benn",
                   topics |-> {}, created_at |-> k]]

UnitInit ==
  /\ conversations = [c \in ConvIds |->
       IF c = UnitConv
         THEN [exists |-> TRUE, user_id |-> <<"u1">>, created_by |-> "chat",
               metadata |-> NoRow.metadata]
         ELSE NoRow]
  /\ \E n \in 0..MaxRows : messages = [c \in ConvIds |->
       IF c = UnitConv THEN UnitRows(n) ELSE <<>>]
  /\ memory_fragments = [c \in ConvIds |-> <<>>]
  /\ slot = [t \in Slots |->
       IF t = 1 THEN [IdleSlot EXCEPT !.pc = "unit", !.userId = <<"u1">>,
                        !.conversationId = UnitConv]
       ELSE IdleSlot]
  /\ started = 0
  /\ failures = 0
  /\ completed = [c \in ConvIds |-> 0]
  /\ call = NoCall

\* a call of updateEmotionalTrajectory(emotion); slot[1].i counts the calls
CallUpdateEmotionalTrajectory ==
  /\ slot[1].pc = "unit"
  /\ slot[1].i < MaxPushes
  /\ \E emotion \in UnitTags :
       slot' = [slot EXCEPT ![1].i = @ + 1,
                  ![1].state.emotionalTrajectory = updateEmotionalTrajectory(@, emotion)]
  /\ UNCHANGED <<conversations, messages, memory_fragments, started, failures, completed, call>>

\* a call of loadRecentMessages() that the store answers
CallLoadRecentMessages ==
  /\ slot[1].pc = "unit"
  /\ slot' = [slot EXCEPT ![1].state.shortTermMemory =
                RecentMessages(messages[slot[1].conversationId], RecentLimit)]
  /\ UNCHANGED <<conversations, messages, memory_fragments, started, failures, completed, call>>

UnitNext == CallUpdateEmotionalTrajectory \/ CallLoadRecentMessages
UnitSpec == UnitInit /\ [][UnitNext]_vars

\* ------------------------------------- component specification
\* The classes exported for testing (chat.js:2600-2603) called directly, one
\* call at a time, each with arguments drawn from the sets above; call
\* holds the last call and what it returned.
CallCollapseResponseWaveform ==
  /\ call = NoCall
  /\ \E candidates \in Pools(MaxPool), ctx \in ScoringContexts :
       call' = [op |-> "collapseResponseWaveform", candidates |-> candidates,
                ctx |-> ctx, result |-> collapseResponseWaveform(candidates, ctx)]
  /\ UNCHANGED <<conversations, messages, memory_fragments, slot, started, failures, completed>>

\* the caller has the result; the next call may follow
ReturnFromCall ==
  /\ call # NoCall
  /\ call' = NoCall
  /\ UNCHANGED <<conversations, messages, memory_fragments, slot, started, failures, completed>>

\* MemoryLattice.retrieveRelevantMemories and, within it, rankMemories
CallRetrieveRelevantMemories ==
  /\ call = NoCall
  /\ \E q \in LatticeQueries :
       call' = [op |-> "retrieveRelevantMemories", q |-> q,
                result |-> retrieveRelevantMemories(q)]
  /\ UNCHANGED <<conversations, messages, memory_fragments, slot, started, failures, completed>>

\* MemoryLattice.rankMemories on a pool with repeated rows
CallRankMemories ==
  /\ call = NoCall
  /\ \E i \in LatticeIds, j \in LatticeIds, k \in 0..MaxFragments :
       LET pool == [n \in 1..(IF j >= i THEN j - i + 1 ELSE 0) |-> LatticeRow(i + n - 1)]
                     \o [n \in 1..k |-> LatticeRow(n)]
       IN call' = [op |-> "rankMemories", pool |-> pool, result |-> rankMemories(pool)]
  /\ UNCHANGED <<conversations, messages, memory_fragments, slot, started, failures, completed>>

\* QuantumSemanticAnalyzer on one text, twice, with the Math.random() draws of
\* the two runs
CallAnalyze ==
  /\ call = NoCall
  /\ \E m \in AnalyzerTexts, r1 \in RandomDraws, r2 \in RandomDraws :
       call' = [op |-> "analyze", message |-> m, draws |-> <<r1, r2>>,
                first |-> AnalysisParts(m, r1), second |-> AnalysisParts(m, r2)]
  /\ UNCHANGED <<conversations, messages, memory_fragments, slot, started, failures, completed>>

\* AdvancedConversationStateManager.extractAndStoreMemories with the base
\* analysis of a text: sent are the rows of its inserts, written those the
\* store accepts
CallExtractAndStoreMemories ==
  /\ call = NoCall
  /\ \E m \in AnalyzerTexts, random \in RandomDraws, entities \in {0, 1} :
       LET sent == extractAndStoreMemories(baseAnalysis(m, random), entities)
       IN call' = [op |-> "extractAndStoreMemories", message |-> m, sent |-> sent,
                   written |-> SelectSeq(sent, WeightCheck)]
  /\ UNCHANGED <<conversations, messages, memory_fragments, slot, started, failures, completed>>

\* the personality update of generateQuantumBennResponse on a conversation state
CallPersonalityUpdate ==
  /\ call = NoCall
  /\ \E state \in ManagerStates, random \in TransitionDraws :
       call' = [op |-> "personalityUpdate", before |-> state, random |-> random,
                result |-> PersonalityUpdate(state, random)]
  /\ UNCHANGED <<conversations, messages, memory_fragments, slot, started, failures, completed>>

\* PersonalityMatrix.transition on each of the six states
CallTransition ==
  /\ call = NoCall
  /\ \E s \in DOMAIN defineStates, random \in AllDraws :
       call' = [op |-> "transition", currentState |-> s, random |-> random,
                result |-> transition(s, random)]
  /\ UNCHANGED <<conversations, messages, memory_fragments, slot, started, failures, completed>>

\* the text of generateQuantumBennResponse: the generated one (chat.js:2352-2360)
\* or, from the catch of line 2373, a fallback
CallGenerateText ==
  /\ call = NoCall
  /\ \/ \E source \in DOMAIN CandidateTexts, personality \in GateTraits,
           depth \in GateDepths, recent \in BOOLEAN,
           d \in [1..7 -> RandomDraws] :
         call' = [op |-> "generateText", path |-> "generated", source |-> source,
                  personality |-> personality, depth |-> depth,
                  result |-> GenerateText(source, personality, depth, recent, d)]
     \/ \E text \in FallbackTexts, personality \in GateTraits, depth \in GateDepths :
         call' = [op |-> "generateText", path |-> "fallback", source |-> "fallback",
                  personality |-> personality, depth |-> depth,
                  result |-> generateFallbackResponse(text)]
  /\ UNCHANGED <<conversations, messages, memory_fragments, slot, started, failures, completed>>

\* the user ids and chat ids two requests may carry: strings that the handler
\* takes from the body as they are (chat.js:45), "_" included
PairUserIds == {<<"u1">>, <<"u1", "_", "chat">>}
PairChatIds == {<<"chat", "_", "t1">>, <<"t1">>, <<"c2">>}

\* the constructor of AdvancedConversationStateManager (chat.js:109-113) run
\* for two requests
CallConstructor ==
  /\ call = NoCall
  /\ \E u1 \in PairUserIds, c1 \in PairChatIds, u2 \in PairUserIds, c2 \in PairChatIds :
       call' = [op |-> "constructor",
                first |-> [userId |-> u1, chatId |-> c1,
                           conversationId |-> ConversationId(u1, c1)],
                second |-> [userId |-> u2, chatId |-> c2,
                            conversationId |-> ConversationId(u2, c2)]]
  /\ UNCHANGED <<conversations, messages, memory_fragments, slot, started, failures, completed>>

\* e-mail addresses as the bytes of their UTF-8 text (auth.js:45, 51):
\* "john.smith.long1@x.io", "john.smith.long2@x.io", "a@b.c", "b@b.c"
Emails ==
  { <<106, 111, 104, 110, 46, 115, 109, 105, 116, 104, 46, 108, 111, 110, 103, 49, 64, 120, 46, 105, 111>>,
    <<106, 111, 104, 110, 46, 115, 109, 105, 116, 104, 46, 108, 111, 110, 103, 50, 64, 120, 46, 105, 111>>,
    <<97, 64, 98, 46, 99>>,
    <<98, 64, 98, 46, 99>> }

\* Buffer.toString('base64'): every three bytes give four characters of the
\* alphabet A-Z a-z 0-9 + /, here their indices 0..63; a last group of one or
\* two bytes is filled up with "=", here 64
RECURSIVE Base64(_)
Base64(bytes) ==
  IF bytes = <<>> THEN <<>>
  ELSE LET n == Len(bytes)
           b1 == bytes[1]
           b2 == IF n >= 2 THEN bytes[2] ELSE 0
           b3 == IF n >= 3 THEN bytes[3] ELSE 0
           group == << b1 \div 4,
                       (b1 % 4) * 16 + b2 \div 16,
                       IF n >= 2 THEN (b2 % 16) * 4 + b3 \div 64 ELSE 64,
                       IF n >= 3 THEN b3 % 64 ELSE 64 >>
       IN group \o (IF n > 3 THEN Base64(SubSeq(bytes, 4, n)) ELSE <<>>)

\* auth.js:51 substring(0, 20)
UserIdLength == 20

\* auth.js:51: the base64 text without "+", "/" and "=", cut to 20 characters,
\* behind the fixed prefix "user_"
DeriveUserId(email) ==
  LET kept == SelectSeq(Base64(email), LAMBDA x : x < 62)
  IN SubSeq(kept, 1, Min(UserIdLength, Len(kept)))

\* handleAuth up to the user id (auth.js:45-51), for two requests
CallDeriveUserId ==
  /\ call = NoCall
  /\ \E e1 \in Emails, e2 \in Emails :
       call' = [op |-> "deriveUserId",
                first |-> [email |-> e1, userId |-> DeriveUserId(e1)],
                second |-> [email |-> e2, userId |-> DeriveUserId(e2)]]
  /\ UNCHANGED <<conversations, messages, memory_fragments, slot, started, failures, completed>>

ComponentNext ==
  \/ CallCollapseResponseWaveform
  \/ CallAnalyze
  \/ CallExtractAndStoreMemories
  \/ CallPersonalityUpdate
  \/ CallRetrieveRelevantMemories
  \/ CallRankMemories
  \/ CallTransition
  \/ CallGenerateText
  \/ CallConstructor
  \/ CallDeriveUserId
  \/ ReturnFromCall

ComponentSpec == Init /\ [][ComponentNext]_vars

\* ----------------------------------------- storage specification
\* storeInteraction of the exported AdvancedConversationStateManager
\* (chat.js:2600) called on a manager that has loaded an existing conversation,
\* with the empty string and with a five-character string as the message. The
\* empty string is the one text whose analysis completes (chat.js:1058).
\* the most message rows a conversation holds before the calls stop
MaxStoredMessages == 6

DirectMessages == {Msg("string", 0, 0, {}), Msg("string", 0, 5, {})}

\* the answers of one awaited store call that let the caller go on
StoreOutcomes == {"ok", "error", "throw"}

\* chat.js:265-322 with 324-371, start to end: o[1] and o[2] are the outcomes of
\* the two inserts into messages, o[3] that of the conversation update, o[4] and
\* o[5] those of the fragment inserts; a call that is not reached has no
\* outcome to choose
CallStoreInteraction ==
  /\ call = NoCall
  /\ \E c \in ConvIds, m \in DirectMessages, o \in [1..5 -> StoreOutcomes] :
       /\ conversations[c].exists
       /\ Len(messages[c]) + 2 <= MaxStoredMessages
       /\ conversations[c].metadata.interactionCount < MaxTurns
       /\ Len(memory_fragments[c]) + 2 <= MaxRows
       /\ LET analysis == analyzeWithDepth(m)
              loaded == [conversations[c].metadata EXCEPT
                           !.shortTermMemory = RecentMessages(messages[c], RecentLimit)]
              userStored == ~analysis.threw /\ o[1] = "ok"
              bennStored == userStored /\ o[2] = "ok"
              counted == [loaded EXCEPT !.interactionCount = @ + 1]
              state == [counted EXCEPT !.conversationalDepth = calculateDepth(counted)]
              updated == bennStored /\ o[3] = "ok"
              fragments == ExtractedFragments(analysis, 0)
              firstStored == updated /\ o[4] = "ok"
              secondStored == updated /\ o[4] # "throw" /\ Len(fragments) > 1 /\ o[5] = "ok"
              withUser == IF userStored
                            THEN Append(messages[c],
                                   [role |-> "user", topics |-> analysis.primaryTopics,
                                    created_at |-> Len(messages[c]) + 1])
                            ELSE messages[c]
              withBenn == IF bennStored
                            THEN Append(withUser,
                                   [role |-> "benn", topics |-> {},
                                    created_at |-> Len(withUser) + 1])
                            ELSE withUser
              withFirst == IF firstStored
                             THEN InsertFragment(memory_fragments[c], fragments[1])
                             ELSE memory_fragments[c]
              withSecond == IF secondStored
                              THEN InsertFragment(withFirst, fragments[2])
                              ELSE withFirst
              reached == <<~analysis.threw, userStored, bennStored, updated,
                           updated /\ o[4] # "throw" /\ Len(fragments) > 1>>
          IN /\ \A k \in 1..5 : ~reached[k] => o[k] = "ok"
             /\ messages' = [messages EXCEPT ![c] = withBenn]
             /\ conversations' =
                  IF updated THEN [conversations EXCEPT ![c].metadata = state]
                  ELSE conversations
             /\ memory_fragments' = [memory_fragments EXCEPT ![c] = withSecond]
             /\ call' = [op |-> "storeInteraction", conversationId |-> c]
  /\ UNCHANGED <<slot, started, failures, completed>>

StoreNext ==
  \/ Auth(TRUE, OkOnly)
  \/ CallStoreInteraction
  \/ ReturnFromCall

StoreSpec == Init /\ [][StoreNext]_vars

\* conversations that hold messages, and delete requests of the messages
\* endpoint for them
DeleteNext == StoreNext \/ DeleteConversation(TRUE, Outcomes)
DeleteSpec == Init /\ [][DeleteNext]_vars

\* ------------------------------------------------------------ claims
\* the persisted counters of a conversation (0 while it has no row)
Count(c) == IF conversations[c].exists THEN conversations[c].metadata.interactionCount ELSE 0
Depth(c) == IF conversations[c].exists THEN conversations[c].metadata.conversationalDepth ELSE 0

\* no chat request for conversation c is in flight
Quiet(c) == \A t \in Slots : Active(t) => slot[t].conversationId # c

\* the request's message is missing, not a string or too long
MessageRejected(body) ==
  \/ ~body.hasBody
  \/ body.message.type # "string"
  \/ body.message.length = 0
  \/ body.message.length > MaxMessageLength

\* C1: every POST whose message is missing, not a string or longer than 1000
\* characters is answered with status 400, and the request makes no store call
\* that inserts or updates anything.
C1_RejectedWith400 ==
  \A t \in Slots :
    (slot[t].pc = "done" /\ MessageRejected(slot[t].body))
      => (slot[t].status = 400 /\ ~slot[t].wrote)

\* C2: a POST with a valid message is answered with status 200 and a response
\* text whichever store calls fail, never with 500; when loading the state
\* fails, generation starts from the state the constructor built around its
\* freshly generated PersonalityVector.
C2_Answers200 ==
  \A t \in Slots :
    /\ (slot[t].pc = "done" /\ ValidateRequest(slot[t].body) = 0)
         => (slot[t].status = 200 /\ slot[t].origin \in {"fallback", "generated"})
    /\ (slot[t].pc = "generate" /\ slot[t].loadFailed)
         => slot[t].state = ConstructorState(slot[t].constructed)

\* a valid request was answered after its state load had failed
C2_Witness ==
  \E t \in Slots :
    /\ slot[t].pc = "done" /\ slot[t].status = 200
    /\ slot[t].loadFailed /\ failures > 0
    /\ slot[t].state.personalityVector = slot[t].constructed

\* C3: when two turns for the same conversation overlap, no update is lost:
\* once both are answered the persisted interactionCount has grown by 2 and the
\* messages of both turns are stored.
C3_NoLostUpdate ==
  (/\ \A t \in Slots : slot[t].pc = "done" /\ slot[t].status = 200 /\ slot[t].raced
   /\ slot[1].conversationId = slot[2].conversationId)
    => (/\ Count(slot[1].conversationId) >= 2
        /\ Len(messages[slot[1].conversationId]) >= 4)

\* C4: after N turns sent one after the other to one conversation, with every
\* store call succeeding, the persisted interactionCount is N larger than before.
C4_CountsEachTurn ==
  \A c \in ConvIds : Quiet(c) => Count(c) = completed[c]

InRange(personalityVector) ==
  \A k \in TraitKeys(personalityVector) \cap DOMAIN defineTraits :
    /\ defineTraits[k].min <= personalityVector[k]
    /\ personalityVector[k] <= defineTraits[k].max

\* C6: after any sequence of turns every trait of the conversation's
\* PersonalityVector that has a configured [min,max] lies within it, from the
\* first turn on.
C6_TraitsInRange ==
  /\ \A c \in ConvIds :
       (conversations[c].exists /\ completed[c] >= 1)
         => InRange(conversations[c].metadata.personalityVector)
  /\ \A t \in Slots :
       (slot[t].pc = "done" /\ slot[t].status = 200)
         => InRange(slot[t].state.personalityVector)

\* the rows of a table from the k-th newest to the newest, oldest first
Newest(rows, k) == SubSeq(rows, Max(1, Len(rows) - k + 1), Len(rows))

\* C7: shortTermMemory holds at most 20 messages and emotionalTrajectory at most
\* 10 tags; what is kept are the newest entries in order, newest last, and the
\* entry dropped at the cap is the oldest.
C7_Caps ==
  /\ [](\A t \in Slots :
          LET st == slot[t].state
          IN /\ Len(st.shortTermMemory) <= RecentLimit
             /\ Len(st.emotionalTrajectory) <= TrajectoryCap
             /\ st.shortTermMemory # <<>> =>
                  st.shortTermMemory = Newest(messages[slot[t].conversationId], RecentLimit))
  /\ [][\A t \in Slots :
          LET old == slot[t].state.emotionalTrajectory
              new == slot'[t].state.emotionalTrajectory
          IN new # old =>
               /\ new # <<>>
               /\ SubSeq(new, 1, Len(new) - 1) =
                    (IF Len(old) = TrajectoryCap THEN Tail(old) ELSE old)]_vars

\* both caps have been reached and an entry has been dropped from each list
C7_Witness ==
  /\ slot[1].i > TrajectoryCap
  /\ Len(slot[1].state.emotionalTrajectory) = TrajectoryCap
  /\ Len(slot[1].state.shortTermMemory) = RecentLimit
  /\ Len(messages[slot[1].conversationId]) > RecentLimit
  /\ slot[1].state.shortTermMemory[RecentLimit].created_at
       = Len(messages[slot[1].conversationId])

C9_EventuallyAnswered ==
  \A t \in Slots : Active(t) ~> (slot[t].pc = "done")

\* the number of copies of the i-th initial memory stored for conversation c
SeedCopies(c, i) ==
  Cardinality({k \in 1..Len(memory_fragments[c]) :
                 memory_fragments[c][k] = SeedFragment(i)})

\* C10: after the first answered turn on a conversation, with the store
\* available, its row exists with a PersonalityVector and each initial memory is
\* stored for it exactly once, also when the auth endpoint created the row.
C10_SeededOnce ==
  \A c \in ConvIds :
    (completed[c] >= 1 /\ Quiet(c))
      => (/\ conversations[c].exists
          /\ \A i \in 1..SeedCount : SeedCopies(c, i) = 1)


\* C11: for an empty candidate pool the selector returns, without raising an
\* error, the fixed candidate with source 'fallback', confidence 0.3 and the
\* canned text.
C11_EmptyPoolFallback ==
  (call.op = "collapseResponseWaveform" /\ call.candidates = <<>>)
    => (/\ ~call.result.threw
        /\ call.result.selected.source = "fallback"
        /\ call.result.selected.confidence = 30
        /\ call.result.selected.text = "Hmm, let me think about that for a moment.")

\* the selector has been called with an empty pool
C11_Witness ==
  /\ call.op = "collapseResponseWaveform"
  /\ call.candidates = <<>>
  /\ call.result.selected = FallbackCandidate

\* the weighted score of a candidate: confidence 0.30, relevance 0.25, novelty
\* 0.15, coherence 0.15, personalityMatch 0.10, sentimentFit 0.05
WeightedScore(candidate, ctx) ==
  candidate.confidence * 30
    + calculateRelevance(candidate, ctx) * 25
    + calculateNoveltyForCandidate(candidate) * 15
    + candidate.coherence * 15
    + calculatePersonalityMatch(candidate, ctx) * 10
    + calculateEmotionalFit(candidate, ctx) * 5

\* C12: for a non-empty pool the selector returns the candidate of maximal
\* weighted score, and of several with the maximal score the earliest in pool
\* order.
C12_MaxScoreFirst ==
  (call.op = "collapseResponseWaveform" /\ call.candidates # <<>>)
    => LET pool == call.candidates
           best == call.result.index
       IN /\ best \in 1..Len(pool)
          /\ \A i \in 1..Len(pool) :
               /\ WeightedScore(pool[i], call.ctx) <= WeightedScore(pool[best], call.ctx)
               /\ i < best =>
                    WeightedScore(pool[i], call.ctx) < WeightedScore(pool[best], call.ctx)


\* the pool the ranker was given in the last call, and what it returned
RankedPool == IF call.op = "rankMemories" THEN call.pool ELSE call.result.pool
RankedOutput == IF call.op = "rankMemories" THEN call.result ELSE call.result.memories

\* C13: the ranker's output has at most 10 entries, no two with the same id,
\* in descending order of score, entries of equal score in the order in which
\* the pool first held them.
C13_RankedTopTen ==
  (call.op \in {"rankMemories", "retrieveRelevantMemories"})
    => LET out == RankedOutput
       IN /\ Len(out) <= RankLimit
          /\ \A i \in 1..Len(out), j \in 1..Len(out) :
               i < j =>
                 /\ out[i].id # out[j].id
                 /\ calculateMemoryScore(out[i]) >= calculateMemoryScore(out[j])
                 /\ calculateMemoryScore(out[i]) = calculateMemoryScore(out[j])
                      => FirstOccurrence(RankedPool, out[i].id)
                           < FirstOccurrence(RankedPool, out[j].id)

\* a pool with a repeated row and more than 10 distinct rows was ranked, and
\* two rows of equal score are in the output
C13_Witness ==
  /\ call.op = "rankMemories"
  /\ Len(call.result) = RankLimit
  /\ Cardinality({call.pool[k].id : k \in 1..Len(call.pool)}) > RankLimit
  /\ Len(call.pool) > Cardinality({call.pool[k].id : k \in 1..Len(call.pool)})
  /\ \E i \in 1..Len(call.result), j \in 1..Len(call.result) :
       i < j /\ calculateMemoryScore(call.result[i]) = calculateMemoryScore(call.result[j])

\* what a strategy contributes: its rows, or nothing when its query failed
Contribution(o, rows) == IF o = "ok" THEN rows ELSE <<>>

\* the associations of the first three memories of a pool, query by query
AssociativeContribution(base, outs) ==
  LET n == Min(AssociativeBase, Len(base))
      part(k) == IF k <= n THEN Contribution(outs[k], findAssociations(base[k])) ELSE <<>>
  IN part(1) \o part(2) \o part(3)

\* C14: a strategy whose store query fails contributes nothing, the other
\* strategies contribute what they found, the pool of all contributions is
\* ranked, and the retrieval raises no error.
C14_StrategyFailureIsLocal ==
  (call.op = "retrieveRelevantMemories")
    => LET q == call.q
           base == Contribution(q.topicsOutcome, retrieveByTopics(q.topicsMatch))
                     \o Contribution(q.emotionOutcome, retrieveByEmotion(q.emotionMatch))
                     \o Contribution(q.depthOutcome, retrieveByDepth(q.depth))
                     \o Contribution(q.recentOutcome, retrieveRecent)
           pool == base \o AssociativeContribution(base, q.associativeOutcomes)
       IN /\ ~call.result.threw
          /\ call.result.pool = pool
          /\ call.result.memories = rankMemories(pool)

\* the first strategy's query failed and fragments of later strategies were ranked
C14_Witness ==
  /\ call.op = "retrieveRelevantMemories"
  /\ call.q.topicsOutcome # "ok" /\ call.q.topicsMatch # {}
  /\ call.q.emotionOutcome = "ok" /\ call.q.recentOutcome = "ok"
  /\ Len(call.result.memories) > 5


\* C15: no step of a chat turn removes or changes a stored memory fragment: the
\* fragments of a conversation only grow, except in the step that deletes the
\* conversation's row.
C15_FragmentsOnlyGrow ==
  [][\A c \in ConvIds :
       \/ /\ Len(memory_fragments'[c]) >= Len(memory_fragments[c])
          /\ SubSeq(memory_fragments'[c], 1, Len(memory_fragments[c])) = memory_fragments[c]
       \/ /\ conversations[c].exists /\ ~conversations'[c].exists
          /\ \A t \in Slots : slot'[t] = slot[t]]_vars

\* two turns have been answered on a conversation that has all its initial memories
C15_Witness ==
  \E c \in ConvIds :
    /\ completed[c] >= 2
    /\ Quiet(c)
    /\ Len(memory_fragments[c]) = SeedCount


\* C16: every memory fragment that a turn writes has a weight within [0,1],
\* for every message, also one with many sentiment-lexicon hits.
C16_WeightsInRange ==
  (call.op = "extractAndStoreMemories")
    => \A k \in 1..Len(call.sent) :
         call.sent[k].weight >= 0 /\ call.sent[k].weight <= 1000

\* the fields of an analysis that do not depend on a random draw
DeterministicFields(parts) ==
  [topics |-> parts.base.primaryTopics, sentiment |-> parts.base.sentiment,
   complexity |-> parts.base.complexity, urgency |-> parts.base.urgency,
   abstractionLevel |-> parts.base.abstractionLevel,
   temporalOrientation |-> parts.temporalOrientation]

\* C17: two analyses of the same text yield the same topics, sentiment,
\* complexity, urgency, abstractionLevel and temporalOrientation, whatever the
\* random draws and the conversation state of each run.
C17_AnalyzerDeterministic ==
  (call.op = "analyze")
    => DeterministicFields(call.first) = DeterministicFields(call.second)

\* one text was analysed twice and the two analyses differ in their random part
C17_Witness ==
  /\ call.op = "analyze"
  /\ call.draws[1] # call.draws[2]
  /\ call.first.superposition # call.second.superposition

\* C18: the analysis of "I love my wife Martha, tell me about family" has topics
\* containing family, sentiment positive and containsQuestion true.
C18_LoveMarthaAsStated ==
  (call.op = "analyze" /\ call.message = LoveMartha)
    => (/\ "family" \in call.first.base.primaryTopics
        /\ call.first.base.sentiment = "positive"
        /\ call.first.base.containsQuestion = TRUE)

\* C18 as amended: the analysis of that text has topics containing family,
\* sentiment positive and containsQuestion false, the text not starting with an
\* interrogative lead.
C18_LoveMartha ==
  (call.op = "analyze" /\ call.message = LoveMartha)
    => (/\ "family" \in call.first.base.primaryTopics
        /\ call.first.base.sentiment = "positive"
        /\ call.first.base.containsQuestion = FALSE)

\* that text has been analysed
C18_Witness ==
  /\ call.op = "analyze"
  /\ call.message = LoveMartha
  /\ call.first.base.primaryTopics = {"family"}

\* C19: the analysis of "Hello" has topics {general}, sentiment neutral, urgency
\* low and containsQuestion false; a text with no category keyword has exactly
\* the topics {general}, and no text has an empty topic set.
C19_HelloIsGeneral ==
  (call.op = "analyze")
    => LET base == call.first.base
       IN /\ call.message = Hello =>
               /\ base.primaryTopics = {"general"}
               /\ base.sentiment = "neutral"
               /\ base.urgency = "low"
               /\ base.containsQuestion = FALSE
          /\ (\A c \in DOMAIN semanticNetwork :
                semanticNetwork[c] \cap call.message.keywords = {})
               => base.primaryTopics = {"general"}
          /\ base.primaryTopics # {}

\* "Hello" has been analysed
C19_Witness ==
  /\ call.op = "analyze"
  /\ call.message = Hello
  /\ call.first.base.urgency = "low"

\* C20: when the personality update of a turn runs, the state the state machine
\* chooses is one of the six fixed states, it is the vector's current emotional
\* state afterwards, and it is the last entry of emotionalTrajectory.
C20_StateRecorded ==
  (call.op = "personalityUpdate")
    => LET after == call.result.state
       IN /\ call.result.nextState \in DOMAIN defineStates
          /\ after.personalityVector.currentEmotion = call.result.nextState
          /\ after.hasTrajectory
          /\ after.emotionalTrajectory # <<>>
          /\ after.emotionalTrajectory[Len(after.emotionalTrajectory)]
               = call.result.nextState

\* C21: transition(s) returns a state of s's outgoing table or s itself, and
\* s itself exactly when the draw lies beyond the summed probabilities of the
\* table.
C21_TransitionInTable ==
  (call.op = "transition")
    => LET table == defineTransitions[call.currentState]
           listed == {table[i][1] : i \in 1..Len(table)}
       IN /\ call.result \in listed \cup {call.currentState}
          /\ (call.result = call.currentState) <=> (call.random > TableMass(table))

\* the highest draw still lands in the table, on its last entry
C21_Witness ==
  /\ call.op = "transition"
  /\ call.random = 999
  /\ call.currentState = "nostalgic"
  /\ call.result = "instructive"

\* C22: the sentiment score of every message is (positive hits - negative
\* hits) / 10 clamped to [-1, 1]; in tenths, the difference of the hit counts
\* held within -10..10.
C22_ScoreClamped ==
  (call.op = "analyze")
    => LET hits == Cardinality(call.message.keywords \cap emotionLexicon.positive)
                     - Cardinality(call.message.keywords \cap emotionLexicon.negative)
           score == call.first.base.sentimentScore
       IN /\ score = Max(0 - 10, Min(10, hits))
          /\ score >= 0 - 10
          /\ score <= 10

\* the number of temporal markers of the i-th timeframe matched in a text
MarkersMatched(m, i) == Cardinality(temporalPatterns[i][2] \cap m.keywords)

\* C23: temporalOrientation is the timeframe with the most matched temporal
\* markers, 'present' when none matched, and among timeframes that tie for the
\* most matches the one declared first.
C23_MostMatchedFirstDeclared ==
  (call.op = "analyze")
    => LET m == call.message
           frames == 1..Len(temporalPatterns)
           most == CHOOSE n \in {MarkersMatched(m, i) : i \in frames} :
                     \A i \in frames : MarkersMatched(m, i) <= n
           first == CHOOSE i \in frames :
                      /\ MarkersMatched(m, i) = most
                      /\ \A j \in frames : MarkersMatched(m, j) = most => i <= j
       IN call.first.temporalOrientation
            = IF most = 0 THEN "present" ELSE temporalPatterns[first][1]

\* C24: every response text, generated or fallback, ends with ".", "!" or "?"
\* and does not start with a lowercase letter.
C24_TextWellFormed ==
  (call.op = "generateText")
    => /\ call.result.text.last = "punct"
       /\ ~call.result.text.trailingSpace
       /\ call.result.text.first # "lower"

\* a template text that received no suffix: the "." is the finishing's
C24_Witness ==
  /\ call.op = "generateText"
  /\ call.path = "generated"
  /\ call.source = "template"
  /\ call.result.applied = {}

\* C25: a nostalgic suffix is applied only if nostalgia > 0.7, a wisdom suffix
\* only if wisdom > 0.6, a preface only if the conversational depth > 0.5, and
\* at most one preface is prepended, whatever the random draws.
C25_EmbellishmentsGated ==
  (call.op = "generateText")
    => LET applied == call.result.applied
       IN /\ applied \cap {"nostalgicAddon", "nostalgicTag"} # {}
               => call.personality.nostalgia > 7000
          /\ applied \cap {"wisdomAddon", "wisdomTag"} # {}
               => call.personality.wisdom > 6000
          /\ "preface" \in applied => call.depth > 50
          /\ call.result.prefaces <= 1

\* every gated embellishment applied to one response
C25_Witness ==
  /\ call.op = "generateText"
  /\ {"nostalgicAddon", "nostalgicTag", "wisdomAddon", "wisdomTag", "preface"}
       \subseteq call.result.applied
  /\ call.result.prefaces = 1

\* C26: the fragments the ranker returns for a turn belong to the turn's own
\* conversation: whichever conversation c the retrieval is made for, every
\* returned fragment is a row of c, so the rows of another conversation have no
\* part in the result.
C26_RetrievalConfined ==
  (call.op = "retrieveRelevantMemories")
    => \A c \in {LatticeOwner(id) : id \in LatticeIds} :
         \A k \in 1..Len(call.result.memories) :
           LatticeOwner(call.result.memories[k].id) = c

\* the stored messages of conversation c with a given role
Stored(c, role) == Cardinality({i \in 1..Len(messages[c]) : messages[c][i].role = role})

\* C27: the core records of a turn are persisted all or none, whatever store
\* call failed: each conversation holds as many user messages as agent
\* messages, and its interactionCount counts them.
C27_AllOrNothing ==
  \A c \in ConvIds :
    /\ Stored(c, "user") = Stored(c, "benn")
    /\ Count(c) = Stored(c, "user")

\* C28: distinct (userId, chatId) pairs are mapped to distinct conversation
\* ids, so two different pairs never address the same conversation record.
C28_PairsToDistinctIds ==
  (call.op = "constructor")
    => ((call.first.userId # call.second.userId \/ call.first.chatId # call.second.chatId)
          => call.first.conversationId # call.second.conversationId)

\* C29: a delete request removes both the messages and the conversation record
\* or removes nothing; in particular one whose userId does not own the
\* conversation leaves its messages and its record as they are. Whenever
\* messages of a conversation disappear, its record disappears in the same
\* step, and the other way round.
C29_DeleteBothOrNothing ==
  [][\A c \in ConvIds :
       /\ Len(messages'[c]) < Len(messages[c])
            => (conversations[c].exists /\ ~conversations'[c].exists)
       /\ (conversations[c].exists /\ ~conversations'[c].exists)
            => messages'[c] = <<>>]_vars

\* C30: the auth endpoint derives a stable and collision-free user id: the
\* same e-mail address always yields the same userId and two different
\* addresses never yield the same userId.
C30_UserIdInjective ==
  (call.op = "deriveUserId")
    => (call.first.email = call.second.email
          <=> call.first.userId = call.second.userId)

====
